---- MODULE Spec2Model ----
(***************************************************************************)
(* Execution orchestrator of the code execution server (server.js):        *)
(* the batch admission queue (executionQueue / processQueue / executeCode) *)
(* and the Socket.IO interactive executor (executeCodeInteractive).        *)
(* Every await of the two async functions is one step of the model; the    *)
(* container engine and the file system answer each call with success or   *)
(* failure, chosen nondeterministically.                                   *)
(***************************************************************************)
EXTENDS Integers, Sequences, FiniteSets, TLC

(***************************************************************************)
(* Bounds of the model.                                                    *)
(***************************************************************************)
\* interactive executions requested on the socket
MaxInteractive == 2
\* POST /execute requests
MaxBatch == 3
\* requests of both kinds in one run
MaxRequests == 3
\* frames the containers write to their attached streams in one run
MaxFrames == 1
\* calls of the container engine or the file system that fail in one run
MaxFaults == 1
\* deadline timers that fire in one run
MaxTimeouts == 1
\* 'input' messages the socket receives
MaxInputs == 2

\* requests, inputs, frames, faults and timeouts of one run, taken together
MaxEvents == 3

\* process.env.MAX_CONCURRENT_EXECUTIONS || 5: the values the server is
\* configured with here
ConfiguredLimits == {1, 2}

IExecs == 1..MaxInteractive
Tasks == 1..MaxBatch

\* exit code of a container the engine had to stop (SIGKILL)
KilledCode == 137
ExitCodes == {0, 1}
NoCode == -1
NoId == 0

\* keys of the supportedLanguages table
supportedLanguages ==
  {"python", "javascript", "java", "cpp", "ruby", "go", "dart"}
\* the language tags requests carry: registered ones and one that is not
RequestLanguages == {"python", "cobol"}

\* uuidv4(): a fresh identifier per execution
executionId(e) == e

(***************************************************************************)
(* Messages to the caller (socket.emit).                                   *)
(***************************************************************************)
OutputEv(data, kind) ==
  [type |-> "output", data |-> data, kind |-> kind, status |-> "-",
   exitCode |-> NoCode, executionId |-> NoId]
StartEv(id) ==
  [type |-> "execution-start", data |-> "-", kind |-> "-", status |-> "-",
   exitCode |-> NoCode, executionId |-> id]
CompleteEv(status, code, id) ==
  [type |-> "execution-complete", data |-> "-", kind |-> "-",
   status |-> status, exitCode |-> code, executionId |-> id]
ErrorEv ==
  [type |-> "error", data |-> "message", kind |-> "-", status |-> "-",
   exitCode |-> NoCode, executionId |-> NoId]

(***************************************************************************)
(* 'input' messages from the caller.  data is a string or something else   *)
(* (a number, undefined); nil is a message with no payload at all.         *)
(***************************************************************************)
Str(s) == [isString |-> TRUE, s |-> s]
NotAString == [isString |-> FALSE, s |-> "42"]
DataValues == {Str(""), Str("a"), NotAString}
IdValues == {NoId} \cup {executionId(e) : e \in IExecs}
NilMessage == [nil |-> TRUE, executionId |-> NoId, data |-> NotAString]
Messages ==
  {NilMessage} \cup
  {[nil |-> FALSE, executionId |-> i, data |-> d] : i \in IdValues, d \in DataValues}

VARIABLES
  iexec,             \* interactive executions: locals of executeCodeInteractive
  executionQueue,    \* queued batch tasks
  currentExecutions, \* batch tasks in flight
  task,              \* batch tasks: locals of executeCode and its response
  used,              \* what the environment has done so far, per bound
  connected,         \* the client's socket is connected
  maxConcurrentExecutions, \* the configured limit, read once at start
  logs,              \* the log blob handed to cleanDockerLogs: its frames, and
                     \* the bytes of an unfinished header at its end
  cleanedLogs        \* what cleanDockerLogs returned for it

vars == <<iexec, executionQueue, currentExecutions, task, used, connected,
          maxConcurrentExecutions, logs, cleanedLogs>>
\* the argument and the result of the log collector
lvars == <<logs, cleanedLogs>>
\* the socket and the executions started on it
ivars == <<iexec, connected>>
bvars == <<executionQueue, currentExecutions, task, maxConcurrentExecutions, lvars>>

(***************************************************************************)
(* containerOptions.HostConfig of the two executors.                       *)
(***************************************************************************)
\* memoryLimit: 256 MB for dart and java, 100 MB otherwise
memoryLimit(language) ==
  IF language = "dart" THEN 256 * 1024 * 1024
  ELSE IF language = "java" THEN 256 * 1024 * 1024
  ELSE 100 * 1024 * 1024

\* the batch HostConfig on the engine's default network
BatchHostConfigBridge(language) ==
  [Memory |-> memoryLimit(language), MemorySwap |-> memoryLimit(language),
   NanoCpus |-> 1 * 1000000000, PidsLimit |-> 50, NetworkMode |-> "bridge",
   Privileged |-> FALSE, SecurityOpt |-> {"no-new-privileges"},
   CapDrop |-> {"ALL"}]
\* HostConfig of executeCode's containerOptions
BatchHostConfig(language) ==
  [Memory |-> memoryLimit(language), MemorySwap |-> memoryLimit(language),
   NanoCpus |-> 1 * 1000000000, PidsLimit |-> 50, NetworkMode |-> "none",
   Privileged |-> FALSE, SecurityOpt |-> {"no-new-privileges"},
   CapDrop |-> {"ALL"}]
\* HostConfig of executeCodeInteractive's containerOptions
InteractiveHostConfig(language) ==
  [Memory |-> memoryLimit(language), MemorySwap |-> memoryLimit(language),
   NanoCpus |-> 1 * 1000000000, PidsLimit |-> 50, NetworkMode |-> "none",
   Privileged |-> FALSE, SecurityOpt |-> {"no-new-privileges"},
   CapDrop |-> {"ALL"}]
\* no container has been created
NoHostConfig ==
  [Memory |-> 0, MemorySwap |-> 0, NanoCpus |-> 0, PidsLimit |-> 0,
   NetworkMode |-> "-", Privileged |-> FALSE, SecurityOpt |-> {}, CapDrop |-> {}]

(***************************************************************************)
(* executeCodeInteractive: state of one call.                              *)
(***************************************************************************)
IdleExec ==
  [pc |-> "idle",
   language |-> "",          \* the language argument, once validated
   workDir |-> FALSE,        \* /workdir/<executionId> exists
   container |-> "none",     \* none, created, running, exited, removed
   hostConfig |-> NoHostConfig, \* HostConfig the container was created with
   exitCode |-> NoCode,      \* exit code of the container once it has exited
   exitData |-> NoCode,      \* exitData.StatusCode once container.wait() resolved
   stream |-> "null",        \* null, open, ended (write half), destroyed
   sinks |-> FALSE,          \* stdout/stderr 'data' callbacks are registered
   readEnded |-> FALSE,      \* the stream's 'end' event has fired
   pending |-> <<>>,         \* frames written by the container, not yet read
   inputHandler |-> FALSE,   \* registered on the socket
   executionTimeout |-> "none", \* none, armed, inspecting, stopping, finished, cleared
   err |-> FALSE,            \* an error is propagating to the caller
   events |-> <<>>,          \* what this execution emitted to the caller
   stdin |-> <<>>,           \* what was written to the container's stdin
   writeAfterEnd |-> FALSE,  \* a write was attempted on the ended stream
   cleanupFailed |-> FALSE]  \* a cleanup call (remove, rm) has failed

Emit(x, ev) == [x EXCEPT !.events = Append(@, ev)]

\* stream.end(): closes the write half; no effect once ended or destroyed
StreamEndCall(x) ==
  [x EXCEPT !.stream = IF @ = "open" THEN "ended" ELSE @]

\* the finally block without socket.off('input', inputHandler)
FinallyNoOff(x, failed) ==
  [StreamEndCall(x) EXCEPT !.pc = "rm", !.err = failed]

\* the finally block up to the await of fs.rm
Finally(x, failed) ==
  [StreamEndCall(x) EXCEPT !.inputHandler = FALSE, !.pc = "rm", !.err = failed]

\* stream.write(bytes): reaches the container's stdin while the write half is
\* open; after stream.end() the stream raises write-after-end instead
StreamWrite(x, w) ==
  IF x.stream = "open"
  THEN [x EXCEPT !.stdin = Append(@, w)]
  ELSE [x EXCEPT !.writeAfterEnd = TRUE]

\* inputHandler without the executionId filter
inputHandlerAnyId(x, e, m, seq) ==
  IF x.stream = "null" \/ x.stream = "destroyed" THEN x
  ELSE IF m.nil THEN x
  ELSE IF ~m.data.isString \/ Len(m.data.s) = 0 THEN x
  ELSE StreamWrite(x, [seq |-> seq, msg |-> m, at |-> x.pc,
                       bytes |-> m.data.s \o "\n"])

\* inputHandler without the check of data
inputHandlerAnyData(x, e, m, seq) ==
  IF x.stream = "null" \/ x.stream = "destroyed" THEN x
  ELSE IF m.nil \/ m.executionId # executionId(e) THEN x
  ELSE StreamWrite(x, [seq |-> seq, msg |-> m, at |-> x.pc,
                       bytes |-> m.data.s \o "\n"])

\* inputHandler writing the data without the newline
inputHandlerNoNewline(x, e, m, seq) ==
  IF x.stream = "null" \/ x.stream = "destroyed" THEN x
  ELSE IF m.nil \/ m.executionId # executionId(e) THEN x
  ELSE IF ~m.data.isString \/ Len(m.data.s) = 0 THEN x
  ELSE StreamWrite(x, [seq |-> seq, msg |-> m, at |-> x.pc, bytes |-> m.data.s])

\* the input handler of execution e, called with message m (the seq-th
\* message on the socket); what it writes is recorded with the message and
\* the point the execution was at
inputHandler(x, e, m, seq) ==
  IF x.stream = "null" \/ x.stream = "destroyed" THEN x
  ELSE IF m.nil \/ m.executionId # executionId(e) THEN x
  ELSE IF ~m.data.isString \/ Len(m.data.s) = 0 THEN x
  ELSE StreamWrite(x, [seq |-> seq, msg |-> m, at |-> x.pc,
                       bytes |-> m.data.s \o "\n"])

\* exitData.StatusCode === 0 ? 'success' : 'error'
StatusOf(code) == IF code = 0 THEN "success" ELSE "error"

SetI(e, x) == iexec' = [iexec EXCEPT ![e] = x] /\ UNCHANGED connected

\* the environment spends one unit of a bound
Total ==
  used.requests + used.inputs + used.frames + used.faults + used.timeouts
  + (IF connected THEN 0 ELSE 1)
Use(what) ==
  /\ Total < MaxEvents
  /\ used' = [used EXCEPT ![what] = @ + 1]
\* a call that answers: a failure is one of the run's faults
Answer(ok) ==
  IF ok THEN UNCHANGED used ELSE used.faults < MaxFaults /\ Use("faults")

\* HandlerCatch with its two messages in the other order
HandlerCatchCompleteFirst(x) ==
  IF x.err
  THEN Emit(Emit(x, CompleteEv("error", NoCode, NoId)), ErrorEv)
  ELSE x

\* HandlerCatch emitting whether or not executeCodeInteractive rejected
HandlerCatchAlways(x) ==
  Emit(Emit(x, ErrorEv), CompleteEv("error", NoCode, NoId))

\* the catch of the 'execute-interactive' handler, reached when
\* executeCodeInteractive rejected
HandlerCatch(x) ==
  IF x.err
  THEN Emit(Emit(x, ErrorEv), CompleteEv("error", NoCode, NoId))
  ELSE x

\* socket.on('execute-interactive'): the call of executeCodeInteractive up to
\* its first await; an unsupported language throws at once and the handler's
\* catch emits error and execution-complete
ExecuteInteractive(e, language) ==
  /\ connected
  /\ iexec[e].pc = "idle"
  /\ \A d \in IExecs : d < e => iexec[d].pc # "idle"
  /\ used.requests < MaxRequests
  /\ Use("requests")
  /\ IF language \notin supportedLanguages
     THEN SetI(e, [HandlerCatch([iexec[e] EXCEPT !.err = TRUE])
                     EXCEPT !.pc = "done"])
     ELSE SetI(e, [iexec[e] EXCEPT !.language = language, !.pc = "mkdir"])
  /\ UNCHANGED bvars

\* await fs.mkdir(workDir)
IMkdir(e, ok) ==
  /\ Answer(ok)
  /\ iexec[e].pc = "mkdir"
  /\ IF ok
     THEN SetI(e, [iexec[e] EXCEPT !.workDir = TRUE, !.pc = "writeFile"])
     ELSE SetI(e, Finally(iexec[e], TRUE))
  /\ UNCHANGED bvars

\* await fs.writeFile(filePath, code); then the starting notice and the call of
\* docker.createContainer
IWriteFile(e, ok) ==
  /\ Answer(ok)
  /\ iexec[e].pc = "writeFile"
  /\ IF ok
     THEN SetI(e, [Emit(iexec[e], OutputEv("starting", "-")) EXCEPT !.pc = "create"])
     ELSE SetI(e, Finally(iexec[e], TRUE))
  /\ UNCHANGED bvars

\* container = await docker.createContainer(containerOptions)
ICreateContainer(e, ok) ==
  /\ Answer(ok)
  /\ iexec[e].pc = "create"
  /\ IF ok
     THEN SetI(e, [iexec[e] EXCEPT !.container = "created",
                      !.hostConfig = InteractiveHostConfig(iexec[e].language),
                      !.pc = "attach"])
     ELSE SetI(e, Finally(iexec[e], TRUE))
  /\ UNCHANGED bvars

\* AfterAttach without the execution-start message
AfterAttachNoStart(x, e) ==
  [x EXCEPT !.stream = "open", !.sinks = TRUE, !.inputHandler = TRUE,
            !.pc = "start"]

\* AfterAttach calling container.start before the input handler is registered
AfterAttachNoHandler(x, e) ==
  [Emit([x EXCEPT !.stream = "open", !.sinks = TRUE], StartEv(executionId(e)))
   EXCEPT !.pc = "start"]

\* what runs between the await of container.attach and the await of
\* container.start: sinks wired, input handler registered, execution-start
\* emitted, container.start called
AfterAttach(x, e) ==
  [Emit([x EXCEPT !.stream = "open", !.sinks = TRUE, !.inputHandler = TRUE],
        StartEv(executionId(e)))
   EXCEPT !.pc = "start"]

\* stream = await container.attach(...)
IAttach(e, ok) ==
  /\ Answer(ok)
  /\ iexec[e].pc = "attach"
  /\ IF ok
     THEN SetI(e, AfterAttach(iexec[e], e))
     ELSE SetI(e, Finally(iexec[e], TRUE))
  /\ UNCHANGED bvars

\* await container.start(); then setTimeout(..., 300000) and the call of
\* container.wait
IStart(e, ok) ==
  /\ Answer(ok)
  /\ iexec[e].pc = "start"
  /\ IF ok
     THEN SetI(e, [iexec[e] EXCEPT !.container = "running",
                                   !.executionTimeout = "armed", !.pc = "wait"])
     ELSE SetI(e, Finally(iexec[e], TRUE))
  /\ UNCHANGED bvars

\* the sandboxed program writes a frame to stdout or stderr
ContainerOutput(e, kind) ==
  /\ iexec[e].container = "running"
  /\ used.frames < MaxFrames
  /\ Use("frames")
  /\ SetI(e, [iexec[e] EXCEPT !.pending = Append(@, kind)])
  /\ UNCHANGED bvars

\* the sandboxed program exits by itself
ContainerExit(e, code) ==
  /\ iexec[e].container = "running"
  /\ SetI(e, [iexec[e] EXCEPT !.container = "exited", !.exitCode = code])
  /\ UNCHANGED <<bvars, used>>

\* stdout.on('data') / stderr.on('data'): one frame of the attached stream
\* reaches its sink
OnData(x) ==
  [Emit(x, OutputEv("chunk", Head(x.pending))) EXCEPT !.pending = Tail(x.pending)]

StreamData(e) ==
  /\ iexec[e].sinks
  /\ iexec[e].pending # <<>>
  /\ iexec[e].stream \in {"open", "ended"}
  /\ SetI(e, OnData(iexec[e]))
  /\ UNCHANGED <<bvars, used>>

\* stream.on('end'): the engine closed the read side after the process exited
StreamOnEnd(e) ==
  /\ iexec[e].container \in {"exited", "removed"}
  /\ iexec[e].pending = <<>>
  /\ iexec[e].stream \in {"open", "ended"}
  /\ ~iexec[e].readEnded
  /\ SetI(e, [StreamEndCall(iexec[e]) EXCEPT !.readEnded = TRUE])
  /\ UNCHANGED <<bvars, used>>

\* both halves of the hijacked connection are closed: the socket is destroyed
StreamDestroyed(e) ==
  /\ iexec[e].stream = "ended"
  /\ iexec[e].readEnded
  /\ SetI(e, [iexec[e] EXCEPT !.stream = "destroyed"])
  /\ UNCHANGED <<bvars, used>>

Running(e) == iexec[e].pc = "wait" /\ iexec[e].container = "running"

\* the socket receives an 'input' message: every registered handler runs
Input(m) ==
  /\ connected
  /\ used.inputs < MaxInputs
  /\ \E e \in IExecs : iexec[e].pc # "idle"
  /\ Use("inputs")
  /\ iexec' = [e \in IExecs |->
                 IF iexec[e].inputHandler
                 THEN inputHandler(iexec[e], e, m, used.inputs + 1)
                 ELSE iexec[e]]
  /\ UNCHANGED <<bvars, connected>>

\* the setTimeout callback starts: container.inspect() is called
TimeoutFires(e) ==
  /\ iexec[e].executionTimeout = "armed"
  /\ used.timeouts < MaxTimeouts
  /\ Use("timeouts")
  /\ SetI(e, [iexec[e] EXCEPT !.executionTimeout = "inspecting"])
  /\ UNCHANGED bvars

\* await container.inspect() in the callback: container.stop() is called when
\* the container is reported running; a rejection is caught and logged
TimeoutInspect(e, ok) ==
  /\ iexec[e].executionTimeout = "inspecting"
  /\ IF iexec[e].container = "removed"
     THEN ~ok /\ UNCHANGED used
     ELSE Answer(ok)
  /\ SetI(e, [iexec[e] EXCEPT !.executionTimeout =
                 IF ok /\ iexec[e].container = "running"
                 THEN "stopping" ELSE "finished"])
  /\ UNCHANGED bvars

\* the engine stops the container on behalf of container.stop()
ContainerStopped(e) ==
  /\ iexec[e].executionTimeout = "stopping"
  /\ iexec[e].container = "running"
  /\ SetI(e, [iexec[e] EXCEPT !.container = "exited", !.exitCode = KilledCode])
  /\ UNCHANGED <<bvars, used>>

\* what the callback does once container.stop() has answered
AfterStop(x, ok) ==
  IF ok
  THEN [Emit(x, OutputEv("timeout", "error")) EXCEPT !.executionTimeout = "finished"]
  ELSE [x EXCEPT !.executionTimeout = "finished"]

\* await container.stop() in the callback: the timeout notice follows a
\* successful stop; a rejection is caught and logged
TimeoutStop(e, ok) ==
  /\ iexec[e].executionTimeout = "stopping"
  /\ iexec[e].container # "running"
  /\ IF iexec[e].exitCode = KilledCode
     THEN Answer(ok)
     ELSE ~ok /\ UNCHANGED used
  /\ SetI(e, AfterStop(iexec[e], ok))
  /\ UNCHANGED bvars

\* clearTimeout(executionTimeout): cancels a timer that has not fired yet
ClearTimeout(x) ==
  [x EXCEPT !.executionTimeout = IF @ = "armed" THEN "cleared" ELSE @]

\* what follows a resolved container.wait(): clearTimeout, stream.end(), the
\* call of container.remove()
AfterWait(x) ==
  [StreamEndCall(ClearTimeout(x)) EXCEPT !.exitData = x.exitCode, !.pc = "remove"]

\* exitData = await container.wait(): resolves once the container has exited
IWait(e, ok) ==
  /\ Answer(ok)
  /\ iexec[e].pc = "wait"
  /\ ok => iexec[e].container = "exited"
  /\ IF ok
     THEN SetI(e, AfterWait(iexec[e]))
     ELSE SetI(e, Finally(iexec[e], TRUE))
  /\ UNCHANGED bvars

\* what follows a resolved container.remove(): execution-complete, then the
\* finally block
AfterRemove(x, e) ==
  Finally(Emit([x EXCEPT !.container = "removed"],
               CompleteEv(StatusOf(x.exitData), x.exitData, executionId(e))),
          FALSE)

\* await container.remove()
IRemove(e, ok) ==
  /\ Answer(ok)
  /\ iexec[e].pc = "remove"
  /\ IF ok
     THEN SetI(e, AfterRemove(iexec[e], e))
     ELSE SetI(e, Finally([iexec[e] EXCEPT !.cleanupFailed = TRUE], TRUE))
  /\ UNCHANGED bvars

\* await fs.rm(workDir) in the finally block (its failure is caught and
\* logged); the function then returns or rethrows to the handler
IRm(e, ok) ==
  /\ Answer(ok)
  /\ iexec[e].pc = "rm"
  /\ SetI(e, [HandlerCatch(iexec[e]) EXCEPT
                 !.workDir = IF ok THEN FALSE ELSE @,
                 !.cleanupFailed = IF ok THEN @ ELSE TRUE,
                 !.pc = "done"])
  /\ UNCHANGED bvars

\* socket.on('disconnect'): the handler writes a log line and nothing else
Disconnect ==
  /\ connected
  /\ \E e \in IExecs : iexec[e].pc # "idle"
  /\ Total < MaxEvents
  /\ connected' = FALSE
  /\ UNCHANGED <<iexec, bvars, used>>

InteractiveNext ==
  \/ Disconnect
  \/ \E e \in IExecs, l \in RequestLanguages : ExecuteInteractive(e, l)
  \/ \E e \in IExecs, ok \in BOOLEAN : IMkdir(e, ok)
  \/ \E e \in IExecs, ok \in BOOLEAN : IWriteFile(e, ok)
  \/ \E e \in IExecs, ok \in BOOLEAN : ICreateContainer(e, ok)
  \/ \E e \in IExecs, ok \in BOOLEAN : IAttach(e, ok)
  \/ \E e \in IExecs, ok \in BOOLEAN : IStart(e, ok)
  \/ \E e \in IExecs, k \in {"stdout", "stderr"} : ContainerOutput(e, k)
  \/ \E e \in IExecs, c \in ExitCodes : ContainerExit(e, c)
  \/ \E e \in IExecs : StreamData(e)
  \/ \E e \in IExecs : StreamOnEnd(e)
  \/ \E e \in IExecs : StreamDestroyed(e)
  \/ \E m \in Messages : Input(m)
  \/ \E e \in IExecs : TimeoutFires(e)
  \/ \E e \in IExecs, ok \in BOOLEAN : TimeoutInspect(e, ok)
  \/ \E e \in IExecs : ContainerStopped(e)
  \/ \E e \in IExecs, ok \in BOOLEAN : TimeoutStop(e, ok)
  \/ \E e \in IExecs, ok \in BOOLEAN : IWait(e, ok)
  \/ \E e \in IExecs, ok \in BOOLEAN : IRemove(e, ok)
  \/ \E e \in IExecs, ok \in BOOLEAN : IRm(e, ok)

(***************************************************************************)
(* POST /execute, processQueue and executeCode.                            *)
(***************************************************************************)
\* request bodies: a missing field is the empty string
NoField == ""
\* the documented limits of a request: characters of code and of input
MaxCodeLength == 50000
MaxInputLength == 10000
\* a source text and an input text one character over their limits
LongCode == "code of 50001 characters"
LongInput == "input of 10001 characters"
\* code.length, input.length
Length(text) ==
  CASE text = LongCode -> MaxCodeLength + 1
    [] text = LongInput -> MaxInputLength + 1
    [] OTHER -> Len(text)
Codes == {NoField, "input()", LongCode}
InputTexts == {NoField, "abc", LongInput}
\* the request bodies: every combination of the short texts, and one body for
\* each text over its limit
Requests ==
  {[language |-> l, code |-> c, input |-> i] :
     l \in RequestLanguages \cup {NoField}, c \in {NoField, "input()"},
     i \in {NoField, "abc"}}
  \cup {[language |-> "python", code |-> LongCode, input |-> NoField],
        [language |-> "python", code |-> "input()", input |-> LongInput]}
NoResponse == [http |-> 0, status |-> "-", exitCode |-> NoCode]

NewTask ==
  [pc |-> "new",
   language |-> NoField, code |-> NoField, input |-> NoField,
   workDir |-> FALSE,           \* /tmp/<executionId> exists
   image |-> FALSE,             \* code-exec-tmp-<executionId> exists
   container |-> "none",        \* none, created, running, exited, removed
   cmd |-> <<>>,                \* the command selected for the container
   openStdin |-> FALSE,         \* containerOptions.OpenStdin of the container
   hostConfig |-> NoHostConfig, \* HostConfig the container was created with
   exitCode |-> NoCode,
   executionTimeout |-> "none", \* none, armed, inspecting, stopping, finished, cleared
   err |-> FALSE,               \* an error is propagating to processQueue
   cleanupFailed |-> FALSE,     \* a cleanup call (remove, rm) has failed
   res |-> NoResponse,          \* what was sent on task.res
   ahead |-> 0]                 \* history: tasks found waiting when it was pushed

\* the sources of the request bodies that the pattern of a language matches:
\* /\binput\s*\(/i for python, /\breadline\b|\bprocess\.stdin\b/i for
\* javascript, and so on ("Scanner" has no word boundary after "Scan", nor
\* "readLineSync" after "readline")
patterns(language) ==
  CASE language = "python" -> {"input()"}
    [] language = "javascript" -> {"readline"}
    [] language = "java" -> {"Scanner"}
    [] language = "cpp" -> {"cin"}
    [] language = "ruby" -> {"gets", "readline"}
    [] language = "go" -> {"Scan"}
    [] language = "dart" -> {"readLineSync"}

\* detectInteractiveCode(language, code): the language's pattern occurs in code
detectInteractiveCode(language, code) ==
  language \in supportedLanguages /\ code \in patterns(language)

\* supportedLanguages[language].command
Command(language) ==
  CASE language = "python" -> <<"python", "script.py">>
    [] language = "javascript" -> <<"node", "script.js">>
    [] language = "java" ->
         <<"sh", "-c", "javac -d /tmp Main.java && java -cp /tmp Main">>
    [] language = "cpp" ->
         <<"sh", "-c", "g++ -o /tmp/program main.cpp && /tmp/program">>
    [] language = "ruby" -> <<"ruby", "script.rb">>
    [] language = "go" -> <<"go", "run", "main.go">>
    [] language = "dart" -> <<"dart", "run", "main.dart">>

\* the commands that pipe input.txt into the runner
PipeCommand(language) ==
  CASE language = "java" ->
         <<"sh", "-c",
           "cd /code && javac -d /tmp Main.java && cat input.txt | java -cp /tmp Main">>
    [] language = "cpp" ->
         <<"sh", "-c",
           "cd /code && g++ -o /tmp/program main.cpp && cat input.txt | /tmp/program">>
    [] language = "go" ->
         <<"sh", "-c", "cat /code/input.txt | go run /code/main.go">>
    [] language = "ruby" ->
         <<"sh", "-c", "cat /code/input.txt | ruby /code/script.rb">>
    [] language = "python" ->
         <<"sh", "-c", "cat /code/input.txt | python /code/script.py">>
    [] language = "javascript" ->
         <<"sh", "-c", "cat /code/input.txt | node /code/script.js">>
    [] language = "dart" ->
         <<"sh", "-c", "cat /code/input.txt | dart run /code/main.dart">>
    [] OTHER -> Command(language)

\* the command selection without the test of input
BatchCmdDetectorOnly(language, code, input) ==
  IF detectInteractiveCode(language, code)
  THEN PipeCommand(language)
  ELSE Command(language)

\* let cmd = [...command]; if (hasInteractiveInput && input) { cmd = ... }
BatchCmd(language, code, input) ==
  IF detectInteractiveCode(language, code) /\ input # NoField
  THEN PipeCommand(language)
  ELSE Command(language)

\* cmd[0] of the command executeCode selects
BatchCmd0(language, code, input) == Head(BatchCmd(language, code, input))

\* the test of the direct-stdin path without its look at cmd[0]
DirectStdinAnyCmd(language, code, input) ==
  /\ detectInteractiveCode(language, code)
  /\ input # NoField

\* hasInteractiveInput && input && !cmd[0].includes('sh')
DirectStdin(language, code, input) ==
  /\ detectInteractiveCode(language, code)
  /\ input # NoField
  /\ BatchCmd0(language, code, input) # "sh"

\* .then / .catch of processQueue: the response on task.res; the request and
\* the locals of executeCode are out of scope from here on
Respond(x) ==
  [x EXCEPT !.res = IF x.err
                    THEN [http |-> 500, status |-> "-", exitCode |-> NoCode]
                    ELSE [http |-> 200, status |-> StatusOf(x.exitCode),
                          exitCode |-> x.exitCode],
            !.language = NoField, !.code = NoField, !.input = NoField,
            !.cmd = <<>>, !.pc = "done"]

\* the batch state the queue functions work on
BatchState == [queue |-> executionQueue, current |-> currentExecutions, task |-> task]
SetBatch(b) ==
  /\ executionQueue' = b.queue
  /\ currentExecutions' = b.current
  /\ task' = b.task
  /\ UNCHANGED <<maxConcurrentExecutions, lvars>>

\* processQueue(): dispatches the head of the queue when a slot is free.  A
\* task whose language is unsupported is rejected by executeCode at once, and
\* its .finally calls processQueue again before anything else runs.
RECURSIVE processQueue(_)
processQueue(b) ==
  IF Len(b.queue) = 0 \/ b.current >= maxConcurrentExecutions
  THEN b
  ELSE LET t == Head(b.queue)
           b1 == [b EXCEPT !.current = @ + 1, !.queue = Tail(@)]
       IN  IF b.task[t].language \notin supportedLanguages
           THEN processQueue(
                  [b1 EXCEPT !.task[t] = Respond([@ EXCEPT !.err = TRUE]),
                             !.current = @ - 1])
           ELSE [b1 EXCEPT !.task[t].pc = "mkdir"]

\* the .finally of processQueue without currentExecutions--
SettleNoDecrement(b, t) ==
  processQueue([b EXCEPT !.task[t] = Respond(@)])
\* the .finally of processQueue without its call of processQueue()
SettleNoDrain(b, t) ==
  [b EXCEPT !.task[t] = Respond(@), !.current = @ - 1]
\* .finally of processQueue, after the response: currentExecutions--, then
\* processQueue()
Settle(b, t) ==
  processQueue([b EXCEPT !.task[t] = Respond(@), !.current = @ - 1])

\* executionQueue.push at the head of the queue instead of its tail
EnqueueFront(q, t) == <<t>> \o q
\* executionQueue.push({ language, code, input, res })
Enqueue(q, t) == Append(q, t)

\* the validation of a request without its test of code
MissingLanguage(language, code) == language = NoField
\* !language || !code
MissingField(language, code) == language = NoField \/ code = NoField

\* app.post('/execute'): validation, push, processQueue()
PostExecute(t, language, code, input) ==
  /\ task[t].pc = "new"
  /\ \A d \in Tasks : d < t => task[d].pc # "new"
  /\ used.requests < MaxRequests
  /\ Use("requests")
  /\ LET x == [task[t] EXCEPT !.language = language, !.code = code, !.input = input]
     IN  IF MissingField(language, code)
         THEN SetBatch([BatchState EXCEPT
                  !.task[t] = [@ EXCEPT !.pc = "done",
                       !.res = [http |-> 400, status |-> "-", exitCode |-> NoCode]]])
         ELSE SetBatch(processQueue(
                  [BatchState EXCEPT
                     !.task[t] = [x EXCEPT !.pc = "queued",
                                           !.ahead = Len(executionQueue)],
                     !.queue = Enqueue(@, t)]))
  /\ UNCHANGED ivars

SetT(t, x) ==
  task' = [task EXCEPT ![t] = x] /\ UNCHANGED <<maxConcurrentExecutions, lvars>>

\* executeCode settling from its catch block, without the finally block
BFinallyNoRm(x, failed) == Respond([x EXCEPT !.err = failed])
\* the catch and finally blocks of executeCode up to the await of fs.rm
BFinally(x, failed) == [x EXCEPT !.pc = "rm", !.err = failed]

\* one await of executeCode between mkdir and createContainer
BStep(t, at, ok, next) ==
  /\ task[t].pc = at
  /\ Answer(ok)
  /\ IF ok THEN SetT(t, next) ELSE SetT(t, BFinally(task[t], TRUE))
  /\ UNCHANGED <<ivars, executionQueue, currentExecutions>>

\* await fs.mkdir(workDir)
BMkdir(t, ok) ==
  BStep(t, "mkdir", ok, [task[t] EXCEPT !.workDir = TRUE, !.pc = "writeFile"])

\* await fs.writeFile(filePath, code)
BWriteFile(t, ok) ==
  BStep(t, "writeFile", ok,
        [task[t] EXCEPT !.pc = IF task[t].input # NoField
                               THEN "writeInput" ELSE "writeDockerfile"])

\* await fs.writeFile(input.txt, inputContent), when input was given
BWriteInput(t, ok) ==
  BStep(t, "writeInput", ok, [task[t] EXCEPT !.pc = "writeDockerfile"])

\* await fs.writeFile(tempDockerfilePath, dockerfileContent)
BWriteDockerfile(t, ok) ==
  BStep(t, "writeDockerfile", ok, [task[t] EXCEPT !.pc = "build"])

\* await of docker.buildImage / followProgress; then the selection of cmd
BBuild(t, ok) ==
  BStep(t, "build", ok,
        [task[t] EXCEPT !.image = TRUE,
            !.cmd = BatchCmd(task[t].language, task[t].code, task[t].input),
            !.pc = "create"])

\* container = await docker.createContainer(containerOptions); the attach
\* branch is taken when stdin is written directly
BCreateContainer(t, ok) ==
  BStep(t, "create", ok,
        [task[t] EXCEPT !.container = "created",
            !.hostConfig = BatchHostConfig(task[t].language),
            !.openStdin =
                DirectStdin(task[t].language, task[t].code, task[t].input),
            !.pc = IF DirectStdin(task[t].language, task[t].code, task[t].input)
                   THEN "attach" ELSE "start"])

\* await container.start(); then setTimeout and the call of container.wait
BStart(t, ok) ==
  BStep(t, "start", ok,
        [task[t] EXCEPT !.container = "running", !.executionTimeout = "armed",
                        !.pc = "wait"])

\* the sandboxed program exits by itself
BContainerExit(t, code) ==
  /\ task[t].container = "running"
  /\ SetT(t, [task[t] EXCEPT !.container = "exited", !.exitCode = code])
  /\ UNCHANGED <<ivars, executionQueue, currentExecutions, used>>

\* the setTimeout callback starts: container.inspect() is called
BTimeoutFires(t) ==
  /\ task[t].executionTimeout = "armed"
  /\ used.timeouts < MaxTimeouts
  /\ Use("timeouts")
  /\ SetT(t, [task[t] EXCEPT !.executionTimeout = "inspecting"])
  /\ UNCHANGED <<ivars, executionQueue, currentExecutions>>

\* await container.inspect() in the callback
BTimeoutInspect(t, ok) ==
  /\ task[t].executionTimeout = "inspecting"
  /\ IF task[t].container = "removed"
     THEN ~ok /\ UNCHANGED used
     ELSE Answer(ok)
  /\ SetT(t, [task[t] EXCEPT !.executionTimeout =
                 IF ok /\ task[t].container = "running"
                 THEN "stopping" ELSE "finished"])
  /\ UNCHANGED <<ivars, executionQueue, currentExecutions>>

\* the engine stops the container on behalf of container.stop()
BContainerStopped(t) ==
  /\ task[t].executionTimeout = "stopping"
  /\ task[t].container = "running"
  /\ SetT(t, [task[t] EXCEPT !.container = "exited", !.exitCode = KilledCode])
  /\ UNCHANGED <<ivars, executionQueue, currentExecutions, used>>

\* await container.stop() in the callback; the outcome is only logged
BTimeoutStop(t, ok) ==
  /\ task[t].executionTimeout = "stopping"
  /\ task[t].container # "running"
  /\ IF task[t].exitCode = KilledCode
     THEN Answer(ok)
     ELSE ~ok /\ UNCHANGED used
  /\ SetT(t, [task[t] EXCEPT !.executionTimeout = "finished"])
  /\ UNCHANGED <<ivars, executionQueue, currentExecutions>>

\* data = await container.wait(); then clearTimeout and the call of
\* container.logs
BWait(t, ok) ==
  /\ ok => task[t].container = "exited"
  /\ BStep(t, "wait", ok, [ClearTimeout(task[t]) EXCEPT !.pc = "logs"])

\* logs = await container.logs(...); then cleanDockerLogs and the call of
\* container.remove
BLogs(t, ok) ==
  BStep(t, "logs", ok, [task[t] EXCEPT !.pc = "remove"])

\* await container.remove(), its failure caught and logged
BRemove(t, ok) ==
  /\ task[t].pc = "remove"
  /\ Answer(ok)
  /\ SetT(t, [task[t] EXCEPT !.container = IF ok THEN "removed" ELSE @,
                             !.cleanupFailed = IF ok THEN @ ELSE TRUE,
                             !.pc = "rmi"])
  /\ UNCHANGED <<ivars, executionQueue, currentExecutions>>

\* await docker.getImage(tmpImageName).remove(), its failure caught and
\* logged; the result is returned through the finally block
BRemoveImage(t, ok) ==
  /\ task[t].pc = "rmi"
  /\ Answer(ok)
  /\ SetT(t, BFinally([task[t] EXCEPT !.image = IF ok THEN FALSE ELSE @,
                                      !.cleanupFailed = IF ok THEN @ ELSE TRUE],
                       FALSE))
  /\ UNCHANGED <<ivars, executionQueue, currentExecutions>>

\* await fs.rm(workDir) in the finally block (its failure is caught and
\* logged); executeCode settles and processQueue's callbacks run
BRm(t, ok) ==
  /\ task[t].pc = "rm"
  /\ Answer(ok)
  /\ SetBatch(Settle([BatchState EXCEPT
                        !.task[t].workDir = IF ok THEN FALSE ELSE @,
                        !.task[t].cleanupFailed = IF ok THEN @ ELSE TRUE], t))
  /\ UNCHANGED ivars

BatchNext ==
  \/ \E t \in Tasks, r \in Requests :
        PostExecute(t, r.language, r.code, r.input)
  \/ \E t \in Tasks, ok \in BOOLEAN : BMkdir(t, ok)
  \/ \E t \in Tasks, ok \in BOOLEAN : BWriteFile(t, ok)
  \/ \E t \in Tasks, ok \in BOOLEAN : BWriteInput(t, ok)
  \/ \E t \in Tasks, ok \in BOOLEAN : BWriteDockerfile(t, ok)
  \/ \E t \in Tasks, ok \in BOOLEAN : BBuild(t, ok)
  \/ \E t \in Tasks, ok \in BOOLEAN : BCreateContainer(t, ok)
  \/ \E t \in Tasks, ok \in BOOLEAN : BStart(t, ok)
  \/ \E t \in Tasks, c \in ExitCodes : BContainerExit(t, c)
  \/ \E t \in Tasks : BTimeoutFires(t)
  \/ \E t \in Tasks, ok \in BOOLEAN : BTimeoutInspect(t, ok)
  \/ \E t \in Tasks : BContainerStopped(t)
  \/ \E t \in Tasks, ok \in BOOLEAN : BTimeoutStop(t, ok)
  \/ \E t \in Tasks, ok \in BOOLEAN : BWait(t, ok)
  \/ \E t \in Tasks, ok \in BOOLEAN : BLogs(t, ok)
  \/ \E t \in Tasks, ok \in BOOLEAN : BRemove(t, ok)
  \/ \E t \in Tasks, ok \in BOOLEAN : BRemoveImage(t, ok)
  \/ \E t \in Tasks, ok \in BOOLEAN : BRm(t, ok)

(***************************************************************************)
(* cleanDockerLogs: the collector of the batch log blob.                   *)
(***************************************************************************)
\* frames of a blob, bytes of a payload
MaxLogFrames == 2
MaxPayloadLength == 2
\* stream tags of a frame header: stdout, stderr
StreamTags == {1, 2}
\* payload bytes: the two tag values and an ordinary character
PayloadBytes == {1, 2, 65}
Payloads == UNION {[1..n -> PayloadBytes] : n \in 0..MaxPayloadLength}
LogFrames == [tag : StreamTags, payload : Payloads]
LogBlobs == UNION {[1..n -> LogFrames] : n \in 0..MaxLogFrames}
NotCleaned == <<-1>>
\* position += 8: bytes of a frame header
HeaderLength == 8

\* the engine's framing: 8-byte header (tag, three zero bytes, big-endian
\* length), then the payload
FrameBytes(f) ==
  <<f.tag, 0, 0, 0, 0, 0, 0, Len(f.payload)>> \o f.payload
RECURSIVE BlobBytes(_)
BlobBytes(fs) ==
  IF fs = <<>> THEN <<>> ELSE FrameBytes(Head(fs)) \o BlobBytes(Tail(fs))
\* the bytes of a blob that ends after the first cut bytes of a header
LogBytes(l) ==
  BlobBytes(l.frames) \o SubSeq(<<1, 0, 0, 0, 0, 0, 0, 0>>, 1, l.cut)
\* the payloads of the frames, in frame order
RECURSIVE PayloadsOf(_)
PayloadsOf(fs) ==
  IF fs = <<>> THEN <<>> ELSE Head(fs).payload \o PayloadsOf(Tail(fs))

\* buffer.toString('utf8'): code points of the bytes (a byte that is no
\* UTF-8 sequence by itself becomes U+FFFD)
ToStringUtf8(bytes) ==
  [i \in 1..Len(bytes) |-> IF bytes[i] < 128 THEN bytes[i] ELSE 65533]
\* bufferLogs.slice(from, to), positions counted from 0
Slice(buf, from, to) ==
  SubSeq(buf, from + 1, IF to < Len(buf) THEN to ELSE Len(buf))

\* the inner while loop without its test endOfLine < position + 1
RECURSIVE ScanLineNoSkip(_, _, _)
ScanLineNoSkip(buf, position, endOfLine) ==
  IF endOfLine < Len(buf) /\ ~(buf[endOfLine + 1] = 1 \/ buf[endOfLine + 1] = 2)
  THEN ScanLineNoSkip(buf, position, endOfLine + 1)
  ELSE endOfLine

\* the inner while loop of cleanDockerLogs: the value of endOfLine it ends with
RECURSIVE ScanLine(_, _, _)
ScanLine(buf, position, endOfLine) ==
  IF \/ (endOfLine < Len(buf) /\ ~(buf[endOfLine + 1] = 1 \/ buf[endOfLine + 1] = 2))
     \/ endOfLine < position + 1
  THEN ScanLine(buf, position, endOfLine + 1)
  ELSE endOfLine

\* the outer while loop of cleanDockerLogs
RECURSIVE CleanFrom(_, _, _)
CleanFrom(buf, position, cleaned) ==
  IF position < Len(buf)
  THEN LET start == position + HeaderLength
           endOfLine == ScanLine(buf, start, start)
       IN  CleanFrom(buf, endOfLine,
                     cleaned \o ToStringUtf8(Slice(buf, start, endOfLine)))
  ELSE cleaned

cleanDockerLogs(buf) == CleanFrom(buf, 0, <<>>)

\* output = cleanDockerLogs(logs)
CleanLogs ==
  /\ cleanedLogs = NotCleaned
  /\ cleanedLogs' = cleanDockerLogs(LogBytes(logs))
  /\ UNCHANGED <<iexec, executionQueue, currentExecutions, task, used,
                 connected, maxConcurrentExecutions, logs>>

\* the server at start, before any request
ServerInit ==
  /\ iexec = [e \in IExecs |-> IdleExec]
  /\ executionQueue = <<>>
  /\ currentExecutions = 0
  /\ task = [t \in Tasks |-> NewTask]
  /\ used = [requests |-> 0, inputs |-> 0, frames |-> 0, faults |-> 0,
             timeouts |-> 0]
  /\ connected = TRUE
  /\ maxConcurrentExecutions \in ConfiguredLimits

Init ==
  /\ ServerInit
  /\ logs = [frames |-> <<>>, cut |-> 0]
  /\ cleanedLogs = NotCleaned

Next == InteractiveNext \/ BatchNext

\* the steps of dispatched batch executions: every call answers, the program
\* exits or is stopped
BatchProgress ==
  \E t \in Tasks :
    \/ \E ok \in BOOLEAN :
          \/ BMkdir(t, ok) \/ BWriteFile(t, ok) \/ BWriteInput(t, ok)
          \/ BWriteDockerfile(t, ok) \/ BBuild(t, ok) \/ BCreateContainer(t, ok)
          \/ BStart(t, ok) \/ BTimeoutInspect(t, ok) \/ BTimeoutStop(t, ok)
          \/ BWait(t, ok) \/ BLogs(t, ok) \/ BRemove(t, ok)
          \/ BRemoveImage(t, ok) \/ BRm(t, ok)
    \/ \E c \in ExitCodes : BContainerExit(t, c)
    \/ BTimeoutFires(t) \/ BContainerStopped(t)

\* the steps of interactive executions: every call of the container engine
\* and of the file system answers, container.wait() once the container has
\* exited, and the attached stream is read to its end
InteractiveProgress ==
  \E e \in IExecs :
    \/ \E ok \in BOOLEAN :
          \/ IMkdir(e, ok) \/ IWriteFile(e, ok) \/ ICreateContainer(e, ok)
          \/ IAttach(e, ok) \/ IStart(e, ok) \/ TimeoutInspect(e, ok)
          \/ TimeoutStop(e, ok) \/ IRemove(e, ok) \/ IRm(e, ok)
    \/ IWait(e, TRUE) \/ ContainerStopped(e)
    \/ StreamData(e) \/ StreamOnEnd(e) \/ StreamDestroyed(e)

\* a timer that is set and not cleared fires, unless the program has exited
\* by itself before; a program whose timer has fired need not exit by itself
DeadlineOrExit ==
  \E e \in IExecs :
    \/ TimeoutFires(e)
    \/ iexec[e].executionTimeout = "armed" /\ \E c \in ExitCodes : ContainerExit(e, c)

\* the log collector applied to every blob of the bounded set
LogsInit ==
  /\ ServerInit
  /\ logs \in [frames : LogBlobs, cut : 0..(HeaderLength - 1)]
  /\ cleanedLogs = NotCleaned
SpecLogs == LogsInit /\ [][CleanLogs]_vars
\* the log collector when the call of cleanDockerLogs is made
SpecLogsFair == LogsInit /\ [][CleanLogs]_vars /\ WF_vars(CleanLogs)

\* sources for the command selection: one that each pattern matches, a longer
\* identifier that holds such a word without a word boundary, one without any
CmdCodes ==
  {"input()", "readline", "Scanner", "cin", "gets", "Scan", "readLineSync",
   "print"}
\* one request of every registered language, with each source, with and
\* without input
CmdRequests ==
  {[language |-> l, code |-> c, input |-> i] :
     l \in supportedLanguages, c \in CmdCodes, i \in {NoField, "abc"}}

\* the batch executor serving one request of CmdRequests
CmdNext ==
  \/ \E r \in CmdRequests : PostExecute(1, r.language, r.code, r.input)
  \/ \E t \in Tasks, ok \in BOOLEAN : BMkdir(t, ok)
  \/ \E t \in Tasks, ok \in BOOLEAN : BWriteFile(t, ok)
  \/ \E t \in Tasks, ok \in BOOLEAN : BWriteInput(t, ok)
  \/ \E t \in Tasks, ok \in BOOLEAN : BWriteDockerfile(t, ok)
  \/ \E t \in Tasks, ok \in BOOLEAN : BBuild(t, ok)
  \/ \E t \in Tasks, ok \in BOOLEAN : BCreateContainer(t, ok)
  \/ \E t \in Tasks, ok \in BOOLEAN : BStart(t, ok)
  \/ \E t \in Tasks, c \in ExitCodes : BContainerExit(t, c)
  \/ \E t \in Tasks : BTimeoutFires(t)
  \/ \E t \in Tasks, ok \in BOOLEAN : BTimeoutInspect(t, ok)
  \/ \E t \in Tasks : BContainerStopped(t)
  \/ \E t \in Tasks, ok \in BOOLEAN : BTimeoutStop(t, ok)
  \/ \E t \in Tasks, ok \in BOOLEAN : BWait(t, ok)
  \/ \E t \in Tasks, ok \in BOOLEAN : BLogs(t, ok)
  \/ \E t \in Tasks, ok \in BOOLEAN : BRemove(t, ok)
  \/ \E t \in Tasks, ok \in BOOLEAN : BRemoveImage(t, ok)
  \/ \E t \in Tasks, ok \in BOOLEAN : BRm(t, ok)
\* the command selection over every language of the registry
SpecCmd == Init /\ [][CmdNext]_vars

\* the interactive executor alone
SpecInteractive == Init /\ [][InteractiveNext]_vars
\* the batch executor alone
SpecBatch == Init /\ [][BatchNext]_vars
\* the batch executor when every dispatched execution settles
SpecBatchFair == Init /\ [][BatchNext]_vars /\ WF_vars(BatchProgress)
\* the interactive executor when every call answers and every timer fires
SpecInteractiveFair ==
  Init /\ [][InteractiveNext]_vars
       /\ WF_vars(InteractiveProgress) /\ WF_vars(DeadlineOrExit)
\* both executors in one server
Spec == Init /\ [][Next]_vars

(***************************************************************************)
(* Properties.                                                             *)
(***************************************************************************)
\* the interactive executions and batch tasks in the states building or
\* running: the image build is awaited, or the container's exit is awaited
InteractiveActive == {e \in IExecs : iexec[e].pc = "wait"}
BatchActive == {t \in Tasks : task[t].pc \in {"build", "wait"}}

\* C1: at every moment the executions in state building or running, batch and
\* interactive counted together, number at most maxConcurrentExecutions.
C1_ConcurrencyCap ==
  Cardinality(InteractiveActive) + Cardinality(BatchActive)
    <= maxConcurrentExecutions

\* C2: an execution that has left cleanup (no cleanup call of its own having
\* failed) has no work directory, no container and no ephemeral image left.
C2_ResourcesReleased ==
  /\ \A e \in IExecs :
       iexec[e].pc = "done" /\ ~iexec[e].cleanupFailed =>
         ~iexec[e].workDir /\ iexec[e].container \in {"none", "removed"}
  /\ \A t \in Tasks :
       task[t].pc = "done" /\ ~task[t].cleanupFailed =>
         /\ ~task[t].workDir
         /\ ~task[t].image
         /\ task[t].container \in {"none", "removed"}

AddressedTo(m, e) == ~m.nil /\ m.executionId = executionId(e)
\* the step wrote to the stdin of execution e
Delivered(e) == iexec'[e].stdin # iexec[e].stdin

EvIdx(e, type) ==
  {i \in 1..Len(iexec[e].events) : iexec[e].events[i].type = type}
Starts(e) == EvIdx(e, "execution-start")
Completes(e) == EvIdx(e, "execution-complete")
Outputs(e) == EvIdx(e, "output")

C6_ExactlyOneStart ==
  \A e \in IExecs :
    iexec[e].pc = "done" =>
      /\ Cardinality(Starts(e)) = 1
      /\ \A i \in Starts(e), j \in Completes(e) : i < j

\* C6 amended: an interactive execution emits at most one execution-start,
\* always before its execution-complete; a finished execution has emitted
\* one exactly when container.attach succeeded, and none when it failed
\* before that (unsupported language, mkdir, writeFile, createContainer or
\* attach failure).
C6_OneStartIffAttached ==
  \A e \in IExecs :
    /\ Cardinality(Starts(e)) <= 1
    /\ \A i \in Starts(e), j \in Completes(e) : i < j
    /\ iexec[e].pc = "done" =>
         (Cardinality(Starts(e)) = 1 <=> iexec[e].stream # "null")

\* C6 witness: an execution whose container.start failed after the attach
\* has finished with one execution-start followed by execution-complete.
C6_Witness ==
  \E e \in IExecs :
    /\ iexec[e].pc = "done"
    /\ iexec[e].container = "created"
    /\ iexec[e].stream # "null"
    /\ Cardinality(Starts(e)) = 1
    /\ Cardinality(Completes(e)) = 1

\* C7 as stated: no output message is emitted before execution-start.
C7_StartBeforeAnyOutput ==
  \A e \in IExecs : \A i \in Outputs(e) : \E j \in Starts(e) : j < i

\* C7 amended: every output message other than the starting notice (the
\* container's stdout and stderr data, the timeout notice) is emitted after
\* execution-start.
C7_StartBeforeContainerOutput ==
  \A e \in IExecs : \A i \in Outputs(e) :
    iexec[e].events[i].data # "starting" => \E j \in Starts(e) : j < i

\* C7 witness: data of the container's stream has been emitted.
C7_Witness ==
  \E e \in IExecs : \E i \in Outputs(e) : iexec[e].events[i].data = "chunk"

\* C8: every output message of an interactive execution is emitted before
\* the execution-complete that carries its id (the one emitted once
\* container.wait and container.remove have resolved).
C8_OutputBeforeComplete ==
  \A e \in IExecs : \A i \in Outputs(e), j \in Completes(e) :
    iexec[e].events[j].executionId = executionId(e) => i < j

\* C9: what was written to an execution's stdin is, in arrival order and
\* without repetition, the data of messages received on the socket, each
\* followed by one newline.
C9_InputOrder ==
  \A e \in IExecs : \A i \in 1..Len(iexec[e].stdin) :
    /\ iexec[e].stdin[i].bytes = iexec[e].stdin[i].msg.data.s \o "\n"
    /\ iexec[e].stdin[i].seq \in 1..used.inputs
    /\ i > 1 => iexec[e].stdin[i - 1].seq < iexec[e].stdin[i].seq

\* C9 witness: two messages were written to the stdin of one execution.
C9_Witness ==
  \E e \in IExecs : Len(iexec[e].stdin) = 2

\* C10: at most one interactive execution of the socket has its container
\* running at any time.
C10_OneActivePerSocket ==
  Cardinality({e \in IExecs : Running(e)}) <= 1

\* C11: when the socket disconnects while an execution is running, the
\* disconnect itself cancels the execution: the forced stop of its container
\* is under way as soon as the disconnect handler has run (executionTimeout
\* holds the only code that stops a container)
StopUnderWay(x) == x.executionTimeout \in {"inspecting", "stopping"}
C11_DisconnectCancels ==
  [][(connected /\ ~connected') =>
       \A e \in IExecs : Running(e) => StopUnderWay(iexec'[e])]_vars

\* a task that executeCode has been started for (a request answered 400 never
\* entered the queue)
Dispatched(t) == task[t].pc \notin {"new", "queued"} /\ task[t].res.http # 400
\* C12: batch tasks are dispatched in the order they were enqueued: a task is
\* never dispatched while a task enqueued before it still waits, and the
\* queue holds the waiting tasks in their order of arrival (tasks are numbered
\* in the order of their requests)
C12_FifoDispatch ==
  /\ \A a, b \in Tasks : (a < b /\ task[a].pc = "queued") => ~Dispatched(b)
  /\ \A i, j \in 1..Len(executionQueue) :
        i < j => executionQueue[i] < executionQueue[j]
\* a task that found another task waiting when it was pushed has been
\* dispatched in its turn
C12_Witness ==
  \E t \in Tasks : task[t].ahead > 0 /\ Dispatched(t)

\* C13: when every dispatched execution settles, every request placed on the
\* queue is eventually dispatched and eventually answered
C13_NoStarvation ==
  \A t \in Tasks :
    /\ (task[t].pc = "queued") ~> Dispatched(t)
    /\ (task[t].pc = "queued") ~> (task[t].res.http \in {200, 500})
\* a task that found another task waiting when it was pushed has its response
C13_Witness ==
  \E t \in Tasks : task[t].ahead > 0 /\ task[t].res.http \in {200, 500}

\* C14: a failed cleanup step (container removal, image removal, work
\* directory deletion) does not change the report: an interactive execution
\* whose container.wait() resolved still sends execution-complete with the
\* container's status and exit code, and a batch task whose calls before the
\* cleanup all succeeded is still answered 200 with them
C14_CleanupFailureNotMasking ==
  /\ \A e \in IExecs :
        (iexec[e].pc = "done" /\ iexec[e].cleanupFailed
           /\ iexec[e].exitData # NoCode)
        => \E i \in 1..Len(iexec[e].events) :
             iexec[e].events[i] = CompleteEv(StatusOf(iexec[e].exitData),
                                             iexec[e].exitData, executionId(e))
  /\ \A t \in Tasks :
        (task[t].pc = "done" /\ task[t].cleanupFailed /\ ~task[t].err)
        => task[t].res = [http |-> 200, status |-> StatusOf(task[t].exitCode),
                          exitCode |-> task[t].exitCode]

\* container.attach() or container.start() rejected: the container was created
\* and never started, and the call is in or past its finally block
AttachOrStartFailed(e) ==
  iexec[e].container = "created" /\ iexec[e].pc \in {"rm", "done"}
\* C15: when attach or start fails, the execution sends an error message and
\* then one execution-complete with status error, the error first, and never
\* a completion with status success
C15_AttachStartFailure ==
  \A e \in IExecs :
    AttachOrStartFailed(e) =>
      /\ \A j \in Completes(e) :
            /\ iexec[e].events[j].status = "error"
            /\ \E i \in EvIdx(e, "error") : i < j
      /\ iexec[e].pc = "done" =>
            /\ Cardinality(Completes(e)) = 1
            /\ EvIdx(e, "error") # {}
\* container.start() rejected after execution-start had been sent, and the
\* call has finished
C15_Witness ==
  \E e \in IExecs :
    AttachOrStartFailed(e) /\ iexec[e].pc = "done" /\ Starts(e) # {}

\* C16: a batch request naming a language that is not in the registry is
\* answered 400 by the request handler itself: it is not pushed on the queue
\* and does not touch the counter of executions in flight
C16_UnsupportedRejected400 ==
  [][\A t \in Tasks, l \in RequestLanguages \ supportedLanguages,
        c \in Codes \ {NoField}, i \in InputTexts :
       PostExecute(t, l, c, i) =>
         /\ task'[t].res.http = 400
         /\ task'[t].pc = "done"
         /\ UNCHANGED <<executionQueue, currentExecutions>>]_vars

\* C17: a batch request whose code has more than 50 000 characters or whose
\* input has more than 10 000 is answered 413 by the request handler: it is
\* not pushed on the queue and nothing is executed for it
C17_OversizeRejected413 ==
  [][\A t \in Tasks, l \in RequestLanguages \cap supportedLanguages,
        c \in Codes \ {NoField}, i \in InputTexts :
       (PostExecute(t, l, c, i)
          /\ (Length(c) > MaxCodeLength \/ Length(i) > MaxInputLength)) =>
         /\ task'[t].res.http = 413
         /\ task'[t].pc = "done"
         /\ UNCHANGED <<executionQueue, currentExecutions>>]_vars

\* C18: a batch request with language or code missing is answered 400 and
\* changes nothing else: the queue, the counter of executions in flight, the
\* other tasks and the interactive executions are as before, and no execution
\* is created for it
C18_MissingFieldFrame ==
  [][\A t \in Tasks, l \in RequestLanguages \cup {NoField}, c \in Codes,
        i \in InputTexts :
       (PostExecute(t, l, c, i) /\ (l = NoField \/ c = NoField)) =>
         /\ task' = [task EXCEPT ![t] =
                       [NewTask EXCEPT !.pc = "done",
                          !.res = [http |-> 400, status |-> "-",
                                   exitCode |-> NoCode]]]
         /\ UNCHANGED <<executionQueue, currentExecutions, iexec>>]_vars
\* a request with a missing field was answered 400 while a task that had
\* arrived before it was waiting in the queue
C18_Witness ==
  \E t, u \in Tasks : u < t /\ task[t].res.http = 400 /\ task[u].pc = "queued"

C20_LogsRoundTrip ==
  (cleanedLogs # NotCleaned /\ logs.cut = 0)
    => cleanedLogs = ToStringUtf8(PayloadsOf(logs.frames))

\* what cleanDockerLogs returns is a string: a sequence of code points
IsString(r) == \A i \in 1..Len(r) : r[i] >= 0
\* C21: when the blob ends inside a frame header, the collector reports the
\* truncation instead of returning a string as it does for a well-formed blob
C21_TruncatedFrameReported ==
  (cleanedLogs # NotCleaned /\ logs.cut > 0) => ~IsString(cleanedLogs)

\* the restrictions every sandbox container is created with
Hardened(h) ==
  /\ h.NetworkMode = "none"
  /\ h.Privileged = FALSE
  /\ h.SecurityOpt = {"no-new-privileges"}
  /\ h.CapDrop = {"ALL"}
  /\ h.PidsLimit = 50
  /\ h.NanoCpus = 1000000000
  /\ h.Memory = h.MemorySwap
\* C22: every container, batch or interactive and for every language of the
\* registry, is created with NetworkMode none, Privileged false,
\* no-new-privileges, all capabilities dropped, PidsLimit 50, NanoCpus 1e9
\* and Memory equal to MemorySwap
C22_ContainersHardened ==
  /\ \A l \in supportedLanguages :
        Hardened(BatchHostConfig(l)) /\ Hardened(InteractiveHostConfig(l))
  /\ \A e \in IExecs :
        iexec[e].container # "none" => Hardened(iexec[e].hostConfig)
  /\ \A t \in Tasks :
        task[t].container # "none" => Hardened(task[t].hostConfig)
\* a batch container and an interactive container are running
C22_Witness ==
  \E e \in IExecs, t \in Tasks :
    iexec[e].container = "running" /\ task[t].container = "running"

\* C23: once the container's exit has been observed (container.wait()
\* resolved), what is reported carries status success exactly when the exit
\* code is 0 and carries that exit code: the execution-complete message of
\* an interactive execution, and the 200 response of a batch task
C23_StatusFromExitCode ==
  /\ \A e \in IExecs : \A i \in Completes(e) :
        iexec[e].exitData # NoCode =>
          /\ iexec[e].events[i].status = StatusOf(iexec[e].exitData)
          /\ iexec[e].events[i].exitCode = iexec[e].exitData
  /\ \A t \in Tasks :
        task[t].res.http = 200 =>
          /\ task[t].res.status = StatusOf(task[t].exitCode)
          /\ task[t].res.exitCode = task[t].exitCode

\* C24: once a push or a completion has been handled, the queue is empty or
\* every slot is taken: no task waits while a slot is free
C24_NoIdleSlot ==
  Len(executionQueue) = 0 \/ currentExecutions = maxConcurrentExecutions
\* a task still waits after a task that was waiting in front of it has been
\* dispatched by the completion of another
C24_Witness ==
  \E t \in Tasks :
    /\ task[t].pc = "queued"
    /\ task[t].ahead > 0
    /\ Len(executionQueue) <= task[t].ahead

\* the batch tasks dispatched whose .finally callback has not run yet
InFlight == {t \in Tasks : Dispatched(t) /\ task[t].pc # "done"}
\* C25: currentExecutions is the number of tasks dispatched and not yet
\* completed, whether executeCode resolved or rejected; it is never negative
\* and never above the configured limit
C25_CounterExact ==
  /\ currentExecutions = Cardinality(InFlight)
  /\ currentExecutions >= 0
  /\ currentExecutions <= maxConcurrentExecutions
\* one task has been answered after executeCode resolved, another after it
\* rejected, and a third is in flight
C25_Witness ==
  \E a, b, c \in Tasks :
    /\ task[a].res.http = 200
    /\ task[b].res.http = 500
    /\ c \in InFlight

BeforeRunning ==
  {"mkdir", "writeFile", "writeInput", "writeDockerfile", "build", "create",
   "attach", "start"}
\* C27: the deadline applies in every non-terminal state: an execution that
\* is preparing, building or starting has its deadline timer set, so that a
\* build or a start that never returns is ended by the deadline
C27_DeadlineEverywhere ==
  /\ \A t \in Tasks :
        task[t].pc \in BeforeRunning => task[t].executionTimeout # "none"
  /\ \A e \in IExecs :
        iexec[e].pc \in BeforeRunning => iexec[e].executionTimeout # "none"

\* the timeout notice of the deadline callback is among the events emitted
TimeoutNoticed(e) ==
  \E i \in Outputs(e) :
    /\ iexec[e].events[i].data = "timeout"
    /\ iexec[e].events[i].kind = "error"

\* C28: when the deadline of an interactive execution expires while its
\* container is running, the timeout notice is emitted before the forced stop
\* takes effect (the container is killed) and before execution-complete
C28_NoticeBeforeStop ==
  \A e \in IExecs :
    iexec[e].exitCode = KilledCode => TimeoutNoticed(e)

\* execution-complete has been emitted for the execution
Completed(e) == Completes(e) # {}

\* C29: every interactive execution whose container was started eventually
\* emits execution-complete, the container exiting by itself or being
\* stopped by the deadline timer, when every call of the engine answers
C29_StartedCompletes ==
  \A e \in IExecs : (iexec[e].pc = "wait") ~> Completed(e)

\* the shell-pipe commands: sh -c 'cat input.txt | runner'
PipeCommands == {PipeCommand(l) : l \in supportedLanguages}
\* the batch tasks whose command has been selected
CmdSelected == {t \in Tasks : task[t].cmd # <<>>}

\* C30: in batch mode the shell-pipe command is selected if and only if the
\* input is non-empty and the stdin detector of the language matches the
\* source; in every other case the command is the registry's plain run
\* command, unchanged
C30_PipeIffInputAndDetector ==
  \A t \in CmdSelected :
    LET x == task[t]
        matched == x.input # NoField /\ x.code \in patterns(x.language)
    IN  /\ x.cmd \in PipeCommands <=> matched
        /\ matched => x.cmd = PipeCommand(x.language)
        /\ ~matched => x.cmd = Command(x.language)
\* the pipe command was selected for a compiled language, whose plain
\* command is a shell command as well
C30_Witness ==
  \E t \in CmdSelected :
    /\ task[t].language = "cpp"
    /\ task[t].cmd \in PipeCommands
    /\ task[t].input # NoField

\* the batch tasks whose container has been created
BatchCreated == {t \in Tasks : task[t].container # "none"}

\* C31: in batch mode the direct-stdin path is never taken, whatever the
\* language, the code and the input: no container is created with OpenStdin
\* true and the attach-and-write branch before the start is never entered,
\* because the command selected when input is present and the detector
\* matches begins with a shell
C31_NoDirectStdin ==
  \A t \in Tasks :
    /\ ~task[t].openStdin
    /\ task[t].pc # "attach"
    /\ (t \in CmdSelected /\ task[t].input # NoField
          /\ detectInteractiveCode(task[t].language, task[t].code))
       => Head(task[t].cmd) = "sh"
\* a container was created for a request with input whose source the
\* detector of its language matches
C31_Witness ==
  \E t \in BatchCreated :
    /\ task[t].input # NoField
    /\ detectInteractiveCode(task[t].language, task[t].code)
    /\ task[t].language = "go"

\* C32: no input is written to the stream of an interactive execution once
\* its write half has been ended, by the 'end' handler or by the stream.end()
\* after container.wait(): a message with the execution's id that arrives
\* before the input handler is unregistered is dropped, not written
C32_NoWriteAfterEnd ==
  \A e \in IExecs : ~iexec[e].writeAfterEnd

\* C33: once the work directory of an execution has been created, every
\* exit of executeCode and of executeCodeInteractive (result, thrown error,
\* deadline) passes through the attempt to delete it, and the batch response
\* is sent only when that attempt has finished: while the directory exists,
\* the only step that finishes an execution or answers its request is the
\* one in which the awaited fs.rm returns
C33_WorkDirDeletionAttempted ==
  [][/\ \A t \in Tasks :
          (task[t].workDir /\ task[t].pc # "done")
          => /\ task'[t].pc = "done" => task[t].pc = "rm"
             /\ task'[t].res # task[t].res => task[t].pc = "rm"
     /\ \A e \in IExecs :
          (iexec[e].workDir /\ iexec[e].pc # "done")
          => (iexec'[e].pc = "done" => iexec[e].pc = "rm")]_vars
\* a batch request was answered 500 for an error thrown after the image was
\* built, and an interactive execution has finished with its directory
\* deleted
C33_Witness ==
  /\ \E t \in Tasks :
        task[t].pc = "done" /\ task[t].res.http = 500 /\ task[t].image
  /\ \E e \in IExecs :
        iexec[e].pc = "done" /\ iexec[e].container = "removed"
          /\ ~iexec[e].workDir

\* C34: the deadline timer of an execution is cancelled on every exit path
\* after it was set: once the execution has finished (result returned, error
\* thrown, execution-complete emitted) its timer callback never starts, also
\* when container.wait() rejected
C34_TimerCancelledOnExit ==
  [][/\ \A t \in Tasks :
          task[t].pc = "done"
          => ~(task[t].executionTimeout = "armed"
                 /\ task'[t].executionTimeout = "inspecting")
     /\ \A e \in IExecs :
          iexec[e].pc = "done"
          => ~(iexec[e].executionTimeout = "armed"
                 /\ iexec'[e].executionTimeout = "inspecting")]_vars

\* the executions whose input handler is registered on the socket, and the
\* executions in progress
Registered == {e \in IExecs : iexec[e].inputHandler}
InProgress == {e \in IExecs : iexec[e].pc \notin {"idle", "done"}}

\* C35: once an interactive execution has finished, on any path, its input
\* handler is no longer registered on the socket, and the handlers registered
\* on the socket never outnumber its executions in progress
C35_NoListenerLeft ==
  /\ \A e \in IExecs : iexec[e].pc = "done" => ~iexec[e].inputHandler
  /\ Registered \subseteq InProgress
  /\ Cardinality(Registered) <= Cardinality(InProgress)
\* two executions that had attached their streams have finished, one of them
\* through a thrown error
C35_Witness ==
  /\ \A e \in IExecs : iexec[e].pc = "done" /\ iexec[e].stream # "null"
  /\ \E e \in IExecs : iexec[e].err

\* the messages a caller sends to execution e in reaction to execution-start:
\* its id, and a non-empty string
InputsFor(e) ==
  {m \in Messages : /\ ~m.nil
                    /\ m.executionId = executionId(e)
                    /\ m.data.isString /\ Len(m.data.s) > 0}
\* execution-start was emitted and the container has not exited: the
\* execution is starting its container or awaits its exit
StartedAndRunning(e) ==
  /\ Starts(e) # {}
  /\ iexec[e].pc \in {"start", "wait"}
  /\ iexec[e].container \in {"created", "running"}

\* C36: when execution-start with an id has been emitted, the input handler
\* filtering on that id is registered already: an input message sent in
\* reaction to execution-start while the execution is still running is
\* handed to its handler and written to the stream, never dropped
C36_HandlerBeforeStartEvent ==
  [][\A e \in IExecs :
       StartedAndRunning(e)
       => /\ iexec[e].inputHandler
          /\ \A m \in InputsFor(e) :
                Input(m) => /\ Len(iexec'[e].stdin) = Len(iexec[e].stdin) + 1
                            /\ iexec'[e].stdin[Len(iexec'[e].stdin)].msg = m]_vars
\* an input sent before container.start() returned was written to the stream
C36_Witness ==
  \E e \in IExecs :
    /\ iexec[e].stdin # <<>>
    /\ iexec[e].stdin[1].at = "start"
    /\ iexec[e].stdin[1].msg \in InputsFor(e)

\* a payload that is not empty and holds no byte 0x01 or 0x02 after its
\* first byte
PlainPayload(p) ==
  /\ Len(p) > 0
  /\ \A i \in 2..Len(p) : p[i] \notin StreamTags
\* a blob of whole frames, all with such payloads
PlainBlob(l) ==
  /\ l.cut = 0
  /\ \A i \in 1..Len(l.frames) : PlainPayload(l.frames[i].payload)
\* the strings of the payloads, concatenated in frame order
RECURSIVE PayloadStrings(_)
PayloadStrings(fs) ==
  IF fs = <<>> THEN <<>>
  ELSE ToStringUtf8(Head(fs).payload) \o PayloadStrings(Tail(fs))

\* C37: cleanDockerLogs terminates on every buffer, and for every blob whose
\* frames all have a non-empty payload without a byte 0x01 or 0x02 after its
\* first byte it returns exactly the payloads concatenated in frame order
C37_PlainLogsRoundTrip ==
  /\ <>(cleanedLogs # NotCleaned)
  /\ []((cleanedLogs # NotCleaned /\ PlainBlob(logs))
          => cleanedLogs = PayloadStrings(logs.frames))
\* two frames were cleaned, the first payload beginning with a tag byte and
\* both two bytes long
C37_Witness ==
  /\ cleanedLogs # NotCleaned
  /\ PlainBlob(logs)
  /\ Len(logs.frames) = 2
  /\ logs.frames[1].payload = <<1, 65>>
  /\ Len(logs.frames[2].payload) = 2

====
